---- MODULE Spec2Model ----
(***************************************************************************)
(* State-machine model of CCWebSocket (src/src/websocket-bridge.ts): the   *)
(* client registry, the server lifecycle, the inbound frame protocol and    *)
(* the broadcast / unicast send paths.                                      *)
(*                                                                          *)
(* Every public method and every transport callback is one action that      *)
(* runs the whole method.  What the method cannot decide itself is an input *)
(* of the action: whether ws.send throws, whether a user handler throws,    *)
(* whether ws.close throws, whether Bun.serve can bind, which id            *)
(* generateClientId draws.                                                  *)
(* Four history variables record what the last method did: `last` (the      *)
(* call and how it returned), `writes` (its ws.send calls, in order; a call *)
(* that throws is a write with ok = FALSE), `calls` (its handler            *)
(* invocations, in order), `closes` (its ws.close calls, in order; a call   *)
(* that throws is a close with ok = FALSE).                                 *)
(***************************************************************************)
EXTENDS Integers, Sequences, FiniteSets, TLC

\* Number of transport connections (ws handles) the environment can offer.
MaxConns == 2

\* ws.readyState value the code tests for (WebSocket.OPEN).
OPEN == 1
\* Close code passed to ws.close by stop().
NormalClosure == 1000
\* Default port of the constructor.
DefaultPort == 3001

Handles == 1..MaxConns

\* Outcomes of generateClientId: `client_${Date.now()}_${random}` is a draw,
\* and two draws in the same millisecond can be equal.
IdNames == {"c1", "c2"}

(***************************************************************************)
(* JavaScript / JSON values.                                               *)
(***************************************************************************)
Undefined == [k |-> "undefined"]
Null == [k |-> "null"]
Str(s) == [k |-> "string", s |-> s]
Num(n) == [k |-> "number", n |-> n]
\* Date.now(): some number; its value is not tracked.
Now == [k |-> "number"]
Member(key, val) == [key |-> key, val |-> val]
Obj(members) == [k |-> "object", m |-> members]

HasKey(o, key) == o.k = "object" /\ \E i \in 1..Len(o.m) : o.m[i].key = key

\* o.key for an object o: the member's value, undefined when absent.
Get(o, key) ==
    IF HasKey(o, key)
    THEN LET i == CHOOSE j \in 1..Len(o.m) : o.m[j].key = key IN o.m[i].val
    ELSE Undefined

\* Reading a property of null or undefined throws a TypeError.
PropertyAccessThrows(v) == v.k \in {"null", "undefined"}

\* a || b on the values used here (undefined is falsy, the rest is truthy).
OrElse(a, b) == IF a = Undefined THEN b ELSE a

RECURSIVE DropUndefined(_)
DropUndefined(v) ==
    IF v.k # "object" THEN v
    ELSE LET kept == SelectSeq(v.m, LAMBDA mem : mem.val # Undefined)
         IN Obj([i \in 1..Len(kept) |-> Member(kept[i].key, DropUndefined(kept[i].val))])

\* JSON.stringify: the text of a value; members whose value is undefined are
\* left out.
JSONstringify(v) == [text |-> DropUndefined(v)]

\* A frame that is not JSON.
GarbageText == [text |-> [k |-> "garbage"]]

\* JSON.parse: throws on text that is not JSON.
JSONparse(t) ==
    IF t.text.k = "garbage" THEN [ok |-> FALSE, value |-> Undefined]
    ELSE [ok |-> TRUE, value |-> t.text]

(***************************************************************************)
(* The clients Map: entries in insertion order, keys unique.               *)
(***************************************************************************)
MapHas(m, id) == \E i \in 1..Len(m) : m[i].id = id

MapGet(m, id) ==
    IF MapHas(m, id)
    THEN LET i == CHOOSE j \in 1..Len(m) : m[j].id = id IN m[i].ws
    ELSE 0

\* Map.set: a new key is appended; an existing key keeps its place and gets
\* the new value.
MapSet(m, id, h) ==
    IF MapHas(m, id)
    THEN [i \in 1..Len(m) |-> IF m[i].id = id THEN [id |-> id, ws |-> h] ELSE m[i]]
    ELSE Append(m, [id |-> id, ws |-> h])

\* Map.delete: no effect when the key is absent.
MapDelete(m, id) == SelectSeq(m, LAMBDA e : e.id # id)

MapKeys(m) == {m[i].id : i \in 1..Len(m)}

(***************************************************************************)
(* Inputs.                                                                 *)
(***************************************************************************)
ClientIds == {Str(n) : n \in IdNames}
\* The id handleMessage and handleError report when the handle carries none.
Unknown == Str("unknown")

\* data and type arguments of send / sendToClient: a payload with a type, and
\* no payload with the type left out.
SendArgs == {[data |-> Str("d1"), type |-> Str("evt")],
             [data |-> Undefined, type |-> Undefined]}

\* Frames a client can send: text that is not JSON, the JSON text null, and
\* objects with a type, a data and possibly a clientId field of their own.
FrameTypes == {Str("ping"), Str("chat")}
\* The clientId field a client puts into its own frame: none, or an id that
\* generateClientId can assign to a connection.
WireIds == {Undefined, Str("c2")}
Frame(type, data, clientId) ==
    JSONstringify(Obj(<<Member("type", type), Member("data", data),
                        Member("clientId", clientId)>>))
Frames ==
    {GarbageText, JSONstringify(Null)} \cup
    {Frame(t, Str("hi"), Undefined) : t \in FrameTypes} \cup
    {Frame(Str("chat"), Str("hi"), c) : c \in WireIds}

\* Handler slots of MessageHandlers; a slot holds a function or is unset.
Slots == {"onMessage", "onClientConnect", "onClientDisconnect", "onCustomMessage"}
NoHandler == "unset"
HandlerFns == {"f"}
HandlerSets == [Slots -> HandlerFns \cup {NoHandler}]
\* Argument of setHandlers: nothing, one slot (given as a function or
\* explicitly as undefined), or a function for every slot.
PartialHandlerSets ==
    UNION {[S -> HandlerFns \cup {NoHandler}] :
             S \in {T \in SUBSET Slots : Cardinality(T) <= 1}}
    \cup [Slots -> HandlerFns]

\* Constructor configuration: a port given, host and path left out.
ConfigArgs == {[port |-> Num(8080), host |-> Undefined, path |-> Undefined]}

VARIABLES
    server,     \* this.server !== null
    startTime,  \* this.startTime
    clients,    \* this.clients: the registry, clientId -> ws
    config,     \* this.config
    handlers,   \* this.handlers
    ws,         \* the transport's handles: readyState and the data slot
    last,       \* the last call or event and how it returned
    writes,     \* ws.send calls of the last call, in order
    calls,      \* handler invocations of the last call, in order
    closes      \* ws.close calls of the last call, in order

vars == <<server, startTime, clients, config, handlers, ws, last, writes, calls, closes>>
bridge == <<server, startTime, clients, config, handlers>>

\* One ws.send(text) on handle h; ok is FALSE when the call threw.
Write(h, text, ok) == [to |-> h, text |-> text, ok |-> ok]
\* One invocation of a handler slot; threw is TRUE when the handler raised.
\* registered is the key set of the registry at the time of the call.
Call(slot, args, threw, registered) ==
    [slot |-> slot, args |-> args, threw |-> threw, registered |-> registered]

\* constructor(config, handlers)
ResolveConfig(c) ==
    [port |-> OrElse(c.port, Num(DefaultPort)),
     host |-> OrElse(c.host, Str("localhost")),
     path |-> OrElse(c.path, Str("/ws"))]

Init ==
    /\ server = FALSE
    /\ startTime = Num(0)
    /\ clients = <<>>
    /\ \E c \in ConfigArgs : config = ResolveConfig(c)
    /\ handlers \in HandlerSets
    /\ ws = [h \in Handles |-> [readyState |-> 0, data |-> Undefined]]
    /\ last = [op |-> "constructor", raised |-> FALSE]
    /\ writes = <<>>
    /\ calls = <<>>
    /\ closes = <<>>

(***************************************************************************)
(* start()                                                                 *)
(***************************************************************************)
StartOutcomes == {"ok", "bind failure", "no Bun"}

\* Mutant of AlreadyRunning: the guard is missing.
AlreadyRunning_NoGuard(srv) == FALSE

\* The guard of start(): it throws when this.server is set.
AlreadyRunning(srv) == srv

\* Mutant of Start: this.server is set before the bind is known to succeed.
Start_ServerSetBeforeBind(outcome) ==
    /\ IF AlreadyRunning(server)
       THEN /\ last' = [op |-> "start", raised |-> TRUE,
                        error |-> "WebSocket server is already running"]
            /\ UNCHANGED <<server, startTime>>
       ELSE IF outcome = "ok"
       THEN /\ server' = TRUE
            /\ startTime' = Now
            /\ last' = [op |-> "start", raised |-> FALSE, error |-> ""]
       ELSE /\ last' = [op |-> "start", raised |-> TRUE, error |-> outcome]
            /\ server' = (outcome = "bind failure")
            /\ UNCHANGED startTime
    /\ writes' = <<>> /\ calls' = <<>> /\ closes' = <<>>
    /\ UNCHANGED <<clients, config, handlers, ws>>

Start(outcome) ==
    /\ IF AlreadyRunning(server)
       THEN /\ last' = [op |-> "start", raised |-> TRUE,
                        error |-> "WebSocket server is already running"]
            /\ UNCHANGED <<server, startTime>>
       ELSE IF outcome = "ok"
       THEN /\ server' = TRUE
            /\ startTime' = Now
            /\ last' = [op |-> "start", raised |-> FALSE, error |-> ""]
       ELSE \* Bun.serve threw, or Bun is missing: logged and rethrown
            /\ last' = [op |-> "start", raised |-> TRUE, error |-> outcome]
            /\ UNCHANGED <<server, startTime>>
    /\ writes' = <<>> /\ calls' = <<>> /\ closes' = <<>>
    /\ UNCHANGED <<clients, config, handlers, ws>>

(***************************************************************************)
(* setHandlers(handlers)                                                   *)
(***************************************************************************)
\* Mutant of MergeHandlers: the argument replaces the handler set.
MergeHandlers_Replace(old, partial) ==
    [s \in Slots |-> IF s \in DOMAIN partial THEN partial[s] ELSE NoHandler]

\* { ...this.handlers, ...handlers }
MergeHandlers(old, partial) ==
    [s \in Slots |-> IF s \in DOMAIN partial THEN partial[s] ELSE old[s]]

SetHandlers(partial) ==
    /\ handlers' = MergeHandlers(handlers, partial)
    /\ last' = [op |-> "setHandlers", raised |-> FALSE, partial |-> partial]
    /\ writes' = <<>> /\ calls' = <<>> /\ closes' = <<>>
    /\ UNCHANGED <<server, startTime, clients, config, ws>>

(***************************************************************************)
(* stop()                                                                  *)
(***************************************************************************)
\* ws.close(code, reason) on a handle: an open handle starts closing, any
\* other handle is left as it is.
CloseHandle(w) == IF w.readyState = OPEN THEN [w EXCEPT !.readyState = 2] ELSE w

\* One ws.close(code) on handle h; ok is FALSE when the call threw.
Close(h, code, ok) == [to |-> h, code |-> code, ok |-> ok]

\* The registry after the loop of stop().
ClearClients(m) == <<>>

\* The for-of loop of stop() over this.clients: one ws.close per entry, in
\* insertion order.  The call sits in no try block, so the first ws.close
\* that throws ends the loop and leaves stop() by that exception.
\* failing: the handles on which ws.close throws.
CloseLoop(m, failing) ==
    LET bad == {i \in 1..Len(m) : m[i].ws \in failing}
        n == IF bad = {} THEN Len(m)
             ELSE CHOOSE i \in bad : \A j \in bad : i <= j
    IN [closes |-> [i \in 1..n |-> Close(m[i].ws, NormalClosure, m[i].ws \notin failing)],
        threw |-> bad # {}]

\* closeFails: the handles on which ws.close throws; only a registered handle
\* that is no longer open (the connection is already dead) is taken to fail.
Stop(closeFails) ==
    /\ \A h \in closeFails :
          server /\ ws[h].readyState # OPEN /\ \E i \in 1..Len(clients) : clients[i].ws = h
    /\ IF ~server
       THEN /\ UNCHANGED <<server, clients, ws>>
            /\ closes' = <<>>
            /\ last' = [op |-> "stop", raised |-> FALSE, wasRunning |-> FALSE]
       ELSE LET r == CloseLoop(clients, closeFails) IN
            /\ closes' = r.closes
            /\ ws' = [h \in Handles |->
                        IF \E i \in 1..Len(r.closes) : r.closes[i].to = h /\ r.closes[i].ok
                        THEN CloseHandle(ws[h]) ELSE ws[h]]
            /\ IF r.threw
               THEN \* the exception skips clients.clear(), server.stop() and
                    \* this.server = null
                    UNCHANGED <<server, clients>>
               ELSE clients' = ClearClients(clients) /\ server' = FALSE
            /\ last' = [op |-> "stop", raised |-> r.threw, wasRunning |-> TRUE]
    /\ writes' = <<>> /\ calls' = <<>>
    /\ UNCHANGED <<startTime, config, handlers>>

(***************************************************************************)
(* send(data, type = 'message')                                            *)
(***************************************************************************)
\* A parameter with a default: undefined selects the default.
DefaultType(t) == IF t = Undefined THEN Str("message") ELSE t

\* The message object send() builds.
BroadcastMessage(type, data) ==
    Obj(<<Member("type", type), Member("data", data), Member("timestamp", Now)>>)

\* Mutant of ShouldWrite: the readyState test is missing.
ShouldWrite_NoStateTest(w) == TRUE

\* The condition under which send() writes to a registered handle.
ShouldWrite(w) == w.readyState = OPEN

\* What the catch block of send() does to the registry.
DropFailed(m, id) == MapDelete(m, id)

\* The for-of loop of send() over this.clients.  Deleting the entry the loop
\* is at does not disturb a Map iteration: the loop goes on with the next
\* entry.  rest: entries still to visit; m: the registry so far; wr: the
\* writes so far; failing: the handles on which ws.send throws.
\* Mutant of SendLoop: the first write failure ends the loop.
RECURSIVE SendLoop_AbortOnFailure(_, _, _, _, _, _)
SendLoop_AbortOnFailure(rest, m, wr, text, handle, failing) ==
    IF rest = <<>> THEN [clients |-> m, writes |-> wr]
    ELSE LET e == Head(rest) IN
         IF ~ShouldWrite(handle[e.ws])
         THEN SendLoop_AbortOnFailure(Tail(rest), m, wr, text, handle, failing)
         ELSE IF e.ws \in failing
         THEN [clients |-> DropFailed(m, e.id),
               writes |-> Append(wr, Write(e.ws, text, FALSE))]
         ELSE SendLoop_AbortOnFailure(Tail(rest), m,
                       Append(wr, Write(e.ws, text, TRUE)), text, handle, failing)

RECURSIVE SendLoop(_, _, _, _, _, _)
SendLoop(rest, m, wr, text, handle, failing) ==
    IF rest = <<>> THEN [clients |-> m, writes |-> wr]
    ELSE LET e == Head(rest) IN
         IF ~ShouldWrite(handle[e.ws])
         THEN SendLoop(Tail(rest), m, wr, text, handle, failing)
         ELSE IF e.ws \in failing
         THEN SendLoop(Tail(rest), DropFailed(m, e.id),
                       Append(wr, Write(e.ws, text, FALSE)), text, handle, failing)
         ELSE SendLoop(Tail(rest), m,
                       Append(wr, Write(e.ws, text, TRUE)), text, handle, failing)

Send(data, typeArg, failing) ==
    \* a handle the loop does not write to has no failure to choose
    /\ \A h \in failing : server /\ \E i \in 1..Len(clients) :
                                     clients[i].ws = h /\ ShouldWrite(ws[h])
    /\ IF ~server
       THEN UNCHANGED clients /\ writes' = <<>>
       ELSE LET text == JSONstringify(BroadcastMessage(DefaultType(typeArg), data))
                r == SendLoop(clients, clients, <<>>, text, ws, failing)
            IN clients' = r.clients /\ writes' = r.writes
    /\ last' = [op |-> "send", raised |-> FALSE, data |-> data, type |-> typeArg]
    /\ calls' = <<>> /\ closes' = <<>>
    /\ UNCHANGED <<server, startTime, config, handlers, ws>>

(***************************************************************************)
(* sendToClient(clientId, data, type = 'message')                          *)
(***************************************************************************)
\* The message object sendToClient() builds.
UnicastMessage(type, data, clientId) ==
    Obj(<<Member("type", type), Member("data", data), Member("timestamp", Now),
          Member("clientId", clientId)>>)

\* Mutant of UnicastWrite: a failed write leaves the entry in the registry.
UnicastWrite_KeepOnFailure(m, clientId, text, handle, fails) ==
    LET h == MapGet(m, clientId) IN
    IF handle[h].readyState # OPEN THEN [clients |-> m, writes |-> <<>>]
    ELSE [clients |-> m, writes |-> <<Write(h, text, ~fails)>>]

\* The try / catch of sendToClient() for a registered id: the write, if the
\* handle is open, and the registry afterwards.
UnicastWrite(m, clientId, text, handle, fails) ==
    LET h == MapGet(m, clientId) IN
    IF handle[h].readyState # OPEN THEN [clients |-> m, writes |-> <<>>]
    ELSE IF fails THEN [clients |-> MapDelete(m, clientId),
                        writes |-> <<Write(h, text, FALSE)>>]
    ELSE [clients |-> m, writes |-> <<Write(h, text, TRUE)>>]

SendToClient(clientId, data, typeArg, fails) ==
    \* no write, no failure to choose
    /\ fails => server /\ MapHas(clients, clientId)
                      /\ ws[MapGet(clients, clientId)].readyState = OPEN
    /\ IF ~server \/ ~MapHas(clients, clientId)
       THEN UNCHANGED clients /\ writes' = <<>>
       ELSE LET text == JSONstringify(UnicastMessage(DefaultType(typeArg), data, clientId))
                r == UnicastWrite(clients, clientId, text, ws, fails)
            IN clients' = r.clients /\ writes' = r.writes
    /\ last' = [op |-> "sendToClient", raised |-> FALSE, clientId |-> clientId,
                data |-> data, type |-> typeArg]
    /\ calls' = <<>> /\ closes' = <<>>
    /\ UNCHANGED <<server, startTime, config, handlers, ws>>

(***************************************************************************)
(* getStatus(), getConnectedClients(), isClientConnected(clientId)         *)
(***************************************************************************)
getStatus ==
    [isRunning |-> server, connectedClients |-> Len(clients),
     port |-> config.port, host |-> config.host]

getConnectedClients == [i \in 1..Len(clients) |-> clients[i].id]

isClientConnected(clientId) ==
    MapHas(clients, clientId) /\ ws[MapGet(clients, clientId)].readyState = OPEN

(***************************************************************************)
(* handleOpen(ws): the transport's open event                              *)
(***************************************************************************)
\* generateClientId(): the draw is an input of the open event.
generateClientId(draw) == draw

ConnectedMessage(clientId) ==
    Obj(<<Member("type", Str("connected")),
          Member("data", Obj(<<Member("clientId", clientId),
                               Member("message", Str("Connected to CC WebSocket server")),
                               Member("timestamp", Now)>>)),
          Member("timestamp", Now)>>)

\* The handle is idle (no event delivered yet); a stopped server accepts no
\* connection.
HandleOpen(h, draw, connectThrows, welcomeFails) ==
    /\ server
    /\ ws[h].readyState = 0
    \* inputs that cannot matter are fixed
    /\ connectThrows => handlers["onClientConnect"] # NoHandler /\ ~welcomeFails
    /\ LET clientId == generateClientId(draw)
           registered == MapSet(clients, clientId, h)
           called == handlers["onClientConnect"] # NoHandler
           threw == called /\ connectThrows
       IN /\ ws' = [ws EXCEPT ![h] =
                      [readyState |-> OPEN,
                       data |-> Obj(<<Member("clientId", clientId),
                                      Member("connectedAt", Now)>>)]]
          /\ clients' = registered
          /\ calls' = IF called
                      THEN <<Call("onClientConnect", <<clientId>>, threw, MapKeys(registered))>>
                      ELSE <<>>
          /\ writes' = IF threw THEN <<>>
                       ELSE <<Write(h, JSONstringify(ConnectedMessage(clientId)),
                                    ~welcomeFails)>>
          /\ last' = [op |-> "handleOpen", raised |-> threw, ws |-> h, clientId |-> clientId]
    /\ closes' = <<>>
    /\ UNCHANGED <<server, startTime, config, handlers>>

(***************************************************************************)
(* handleClose(ws): the transport's close event                            *)
(***************************************************************************)
\* Mutant of HandleClose: the handler is invoked before the entry is deleted.
HandleClose_ReportFirst(h, disconnectThrows) ==
    /\ ws[h].readyState \in {OPEN, 2}
    /\ disconnectThrows => handlers["onClientDisconnect"] # NoHandler
    /\ LET clientId == Get(ws[h].data, "clientId")
           resolved == clientId # Undefined
           registered == IF resolved THEN MapDelete(clients, clientId) ELSE clients
           called == resolved /\ handlers["onClientDisconnect"] # NoHandler
           threw == called /\ disconnectThrows
       IN /\ clients' = registered
          /\ calls' = IF called
                      THEN <<Call("onClientDisconnect", <<clientId>>, threw,
                                  MapKeys(clients))>>
                      ELSE <<>>
          /\ last' = [op |-> "handleClose", raised |-> threw, ws |-> h]
    /\ ws' = [ws EXCEPT ![h].readyState = 3]
    /\ writes' = <<>> /\ closes' = <<>>
    /\ UNCHANGED <<server, startTime, config, handlers>>

HandleClose(h, disconnectThrows) ==
    /\ ws[h].readyState \in {OPEN, 2}
    /\ disconnectThrows => handlers["onClientDisconnect"] # NoHandler
    /\ LET clientId == Get(ws[h].data, "clientId")
           resolved == clientId # Undefined
           registered == IF resolved THEN MapDelete(clients, clientId) ELSE clients
           called == resolved /\ handlers["onClientDisconnect"] # NoHandler
           threw == called /\ disconnectThrows
       IN /\ clients' = registered
          /\ calls' = IF called
                      THEN <<Call("onClientDisconnect", <<clientId>>, threw,
                                  MapKeys(registered))>>
                      ELSE <<>>
          /\ last' = [op |-> "handleClose", raised |-> threw, ws |-> h]
    /\ ws' = [ws EXCEPT ![h].readyState = 3]
    /\ writes' = <<>> /\ closes' = <<>>
    /\ UNCHANGED <<server, startTime, config, handlers>>

(***************************************************************************)
(* handleError(ws, error): the transport's error event                     *)
(***************************************************************************)
\* An error can be reported for an open or closing connection, and for a
\* connection that fails before its open event (its handle carries no data).
\* The event itself changes no handle: the transport closes the connection
\* by a close event of its own.
HandleError(h, disconnectThrows) ==
    /\ \/ ws[h].readyState \in {OPEN, 2}
       \/ ws[h].readyState = 0 /\ server
    /\ disconnectThrows => handlers["onClientDisconnect"] # NoHandler
    /\ LET clientId == OrElse(Get(ws[h].data, "clientId"), Unknown)
           resolved == clientId # Undefined
           registered == IF resolved THEN MapDelete(clients, clientId) ELSE clients
           called == resolved /\ handlers["onClientDisconnect"] # NoHandler
           threw == called /\ disconnectThrows
       IN /\ clients' = registered
          /\ calls' = IF called
                      THEN <<Call("onClientDisconnect", <<clientId>>, threw,
                                  MapKeys(registered))>>
                      ELSE <<>>
          /\ last' = [op |-> "handleError", raised |-> threw, ws |-> h]
    /\ writes' = <<>> /\ closes' = <<>>
    /\ UNCHANGED <<server, startTime, config, handlers, ws>>

(***************************************************************************)
(* handleMessage(ws, message): the transport's message event               *)
(***************************************************************************)
\* Mutant of ClientMessage: a clientId field of the frame wins.
ClientMessage_FromWire(data, clientId) ==
    Obj(<<Member("type", Get(data, "type")), Member("data", Get(data, "data")),
          Member("timestamp", Now),
          Member("clientId", OrElse(Get(data, "clientId"), clientId))>>)

\* The ClientMessage built from the parsed frame and the resolved clientId.
ClientMessage(data, clientId) ==
    Obj(<<Member("type", Get(data, "type")), Member("data", Get(data, "data")),
          Member("timestamp", Now), Member("clientId", clientId)>>)

PongMessage ==
    Obj(<<Member("type", Str("pong")),
          Member("data", Obj(<<Member("timestamp", Now)>>)),
          Member("timestamp", Now)>>)

ErrorMessage ==
    Obj(<<Member("type", Str("error")),
          Member("data", Obj(<<Member("message", Str("Invalid message format")),
                               Member("timestamp", Now)>>)),
          Member("timestamp", Now)>>)

\* JSON.stringify of the two fixed replies.
PongText == JSONstringify(PongMessage)
ErrorText == JSONstringify(ErrorMessage)

\* The inputs of one message event: which of its ws.send calls throw and
\* which of the handlers it invokes raise.
MessageInputs ==
    [pongFails : BOOLEAN, errorFails : BOOLEAN,
     onMessageThrows : BOOLEAN, onCustomMessageThrows : BOOLEAN]

\* this.handlers.onMessage?.(clientMessage);
\* this.handlers.onCustomMessage?.(data.type, data.data, clientId)
Dispatch(hs, data, clientId, in, registered) ==
    LET first == IF hs["onMessage"] = NoHandler THEN <<>>
                 ELSE <<Call("onMessage", <<ClientMessage(data, clientId)>>,
                             in.onMessageThrows, registered)>>
        threw1 == first # <<>> /\ in.onMessageThrows
        second == IF threw1 \/ hs["onCustomMessage"] = NoHandler THEN <<>>
                  ELSE <<Call("onCustomMessage",
                              <<Get(data, "type"), Get(data, "data"), clientId>>,
                              in.onCustomMessageThrows, registered)>>
    IN [calls |-> first \o second,
        threw |-> threw1 \/ (second # <<>> /\ in.onCustomMessageThrows)]

\* The try block of handleMessage: its writes, its handler calls and whether
\* it left by an exception.
TryBlock(h, hs, message, clientId, in, registered) ==
    LET parsed == JSONparse(message)
        data == parsed.value
    IN IF ~parsed.ok \/ PropertyAccessThrows(data)
       THEN [writes |-> <<>>, calls |-> <<>>, threw |-> TRUE]
       ELSE IF Get(data, "type") = Str("ping")
       THEN [writes |-> <<Write(h, PongText, ~in.pongFails)>>,
             calls |-> <<>>, threw |-> in.pongFails]
       ELSE LET d == Dispatch(hs, data, clientId, in, registered)
            IN [writes |-> <<>>, calls |-> d.calls, threw |-> d.threw]

\* Mutant of CatchBlock: the failure is only logged.
CatchBlock_LogOnly(h, in) == <<>>

\* The catch block of handleMessage: the error response, whose own failure is
\* caught and logged.
CatchBlock(h, in) == <<Write(h, ErrorText, ~in.errorFails)>>

\* Which branch of the try block a frame takes: it throws before the type
\* test, it is a ping, or it is dispatched.
FrameBranch ==
    [m \in Frames |->
       LET parsed == JSONparse(m) IN
       IF ~parsed.ok \/ PropertyAccessThrows(parsed.value) THEN "throws"
       ELSE IF Get(parsed.value, "type") = Str("ping") THEN "ping"
       ELSE "dispatch"]

\* Inputs that cannot matter are fixed: a call that is not made does not throw.
Applicable(hs, message, in) ==
    LET dispatched == FrameBranch[message] = "dispatch"
        ping == FrameBranch[message] = "ping"
    IN /\ in.pongFails => ping
       /\ in.onMessageThrows => dispatched /\ hs["onMessage"] # NoHandler
       /\ in.onCustomMessageThrows =>
             dispatched /\ hs["onCustomMessage"] # NoHandler /\ ~in.onMessageThrows
       /\ in.errorFails =>
             \/ ~dispatched /\ ~ping
             \/ in.pongFails \/ in.onMessageThrows \/ in.onCustomMessageThrows

HandleMessage(h, message, in) ==
    /\ ws[h].readyState \in {OPEN, 2}
    /\ Applicable(handlers, message, in)
    /\ LET clientId == OrElse(Get(ws[h].data, "clientId"), Unknown)
           t == TryBlock(h, handlers, message, clientId, in, MapKeys(clients))
       IN /\ writes' = IF t.threw THEN t.writes \o CatchBlock(h, in) ELSE t.writes
          /\ calls' = t.calls
    /\ last' = [op |-> "handleMessage", raised |-> FALSE, ws |-> h, frame |-> message]
    /\ closes' = <<>>
    /\ UNCHANGED <<server, startTime, clients, config, handlers, ws>>

(***************************************************************************)
(* The transport takes a connection down: readyState leaves OPEN before    *)
(* the close event is delivered.                                           *)
(***************************************************************************)
TransportClosing(h) ==
    /\ ws[h].readyState = OPEN
    /\ ws' = [ws EXCEPT ![h].readyState = 2]
    /\ last' = [op |-> "closing", raised |-> FALSE, ws |-> h]
    /\ writes' = <<>> /\ calls' = <<>> /\ closes' = <<>>
    /\ UNCHANGED <<server, startTime, clients, config, handlers>>

Next ==
    \/ \E a \in SendArgs, failing \in SUBSET Handles : Send(a.data, a.type, failing)
    \/ \E c \in ClientIds \cup {Unknown}, a \in SendArgs, f \in BOOLEAN :
          SendToClient(c, a.data, a.type, f)
    \/ \E o \in StartOutcomes : Start(o)
    \/ \E closeFails \in SUBSET Handles : Stop(closeFails)
    \/ \E p \in PartialHandlerSets : SetHandlers(p)
    \/ \E h \in Handles, c \in ClientIds, t \in BOOLEAN, f \in BOOLEAN : HandleOpen(h, c, t, f)
    \/ \E h \in Handles, t \in BOOLEAN : HandleClose(h, t)
    \/ \E h \in Handles, t \in BOOLEAN : HandleError(h, t)
    \/ \E h \in Handles, m \in Frames, in \in MessageInputs : HandleMessage(h, m, in)
    \/ \E h \in Handles : TransportClosing(h)

Spec == Init /\ [][Next]_vars

(***************************************************************************)
(* Properties.                                                             *)
(***************************************************************************)
Registered(m) == {m[i].ws : i \in 1..Len(m)}
OpenHandles == {h \in Handles : ws[h].readyState = OPEN}
\* The handles send() has to write to: registered, and open at call time.
Targets == {h \in Registered(clients) : ws[h].readyState = OPEN}
WritesTo(wr, h) == {i \in 1..Len(wr) : wr[i].to = h}
Envelope(w) == JSONparse(w.text).value
EnvelopeType(w) == Get(Envelope(w), "type")
\* The id handleOpen attached to handle h.
AssignedId(h) == Get(ws[h].data, "clientId")
ParsedFrame == JSONparse(last.frame)

\* C1: the registry holds exactly as many entries as there are connections
\* whose handle is open.
C1_RegistrySizeIsOpenHandles == Len(clients) = Cardinality(OpenHandles)

\* C2: on a running server, send(data, type) writes exactly one envelope with
\* that type and data and without a clientId field to every registered handle
\* that is open at call time, and writes to no other handle.
C2_BroadcastToOpenRegistered ==
    [][(server /\ last'.op = "send") =>
         /\ \A h \in Targets : Cardinality(WritesTo(writes', h)) = 1
         /\ \A i \in 1..Len(writes') :
               /\ writes'[i].to \in Targets
               /\ EnvelopeType(writes'[i]) = DefaultType(last'.type)
               /\ Get(Envelope(writes'[i]), "data") = last'.data
               /\ ~HasKey(Envelope(writes'[i]), "clientId")]_vars

\* A broadcast on a running server with two registered connections, one open
\* (written to) and one no longer open (skipped).
C2_Witness ==
    /\ last.op = "send" /\ server
    /\ Len(clients) = 2 /\ Len(writes) = 1 /\ writes[1].ok
    /\ \E h \in Registered(clients) : ws[h].readyState # OPEN

\* C3: a write failure during a broadcast removes exactly the failing
\* connections, every other open registered connection receives the envelope
\* exactly once, no handle is written twice, and send returns normally.
C3_FailureDoesNotAbortBroadcast ==
    [][(server /\ last'.op = "send") =>
         LET failed == {writes'[i].to : i \in {j \in 1..Len(writes') : ~writes'[j].ok}}
         IN /\ clients' = SelectSeq(clients, LAMBDA e : e.ws \notin failed)
            /\ \A h \in Targets \ failed :
                  \E i \in 1..Len(writes') : writes'[i].to = h /\ writes'[i].ok
            /\ \A h \in Handles : Cardinality(WritesTo(writes', h)) <= 1
            /\ ~last'.raised]_vars

\* A broadcast whose first write failed and whose second write succeeded: the
\* failing connection is gone, the other one is still registered.
C3_Witness ==
    /\ last.op = "send"
    /\ Len(writes) = 2 /\ ~writes[1].ok /\ writes[2].ok
    /\ Registered(clients) = {writes[2].to}

\* C4: on a running server, sendToClient(id, ...) writes at most one envelope,
\* with clientId = id, only to the open handle registered under id; an
\* unregistered id writes nothing and changes nothing; a failed write removes
\* the entry of id; the call returns normally.
C4_UnicastOnlyToTarget ==
    [][(server /\ last'.op = "sendToClient") =>
         LET id == last'.clientId IN
         /\ Len(writes') <= 1
         /\ \A i \in 1..Len(writes') :
               /\ MapHas(clients, id)
               /\ writes'[i].to = MapGet(clients, id)
               /\ ws[writes'[i].to].readyState = OPEN
               /\ Get(Envelope(writes'[i]), "clientId") = id
               /\ EnvelopeType(writes'[i]) = DefaultType(last'.type)
               /\ Get(Envelope(writes'[i]), "data") = last'.data
         /\ ~MapHas(clients, id) => writes' = <<>> /\ clients' = clients
         /\ IF \E i \in 1..Len(writes') : ~writes'[i].ok
            THEN clients' = MapDelete(clients, id)
            ELSE clients' = clients
         /\ UNCHANGED <<server, handlers, config, ws>>
         /\ ~last'.raised]_vars

\* A unicast whose write failed: the target is no longer registered, another
\* connection still is.
C4_Witness ==
    /\ last.op = "sendToClient" /\ server
    /\ Len(writes) = 1 /\ ~writes[1].ok
    /\ ~MapHas(clients, last.clientId)
    /\ Len(clients) = 1

\* C5: after stop() on a running server the registry is empty and
\* getStatus().isRunning is false; while the server is stopped the registry
\* stays empty and send / sendToClient write nothing and change nothing.
C5_StopEmptiesAndSilences ==
    [][/\ (server /\ last'.op = "stop") =>
             Len(clients') = 0 /\ ~(getStatus.isRunning)' /\ ~last'.raised
       /\ ~server' => Len(clients') = 0
       /\ (~server /\ last'.op \in {"send", "sendToClient"}) =>
             /\ writes' = <<>> /\ calls' = <<>> /\ closes' = <<>>
             /\ UNCHANGED <<bridge, ws>>]_vars

\* C6: start() on a running server raises 'already running' and changes
\* nothing: server, registry, handlers and configuration stay as they were.
C6_SecondStartFails ==
    [][(server /\ last'.op = "start") =>
         /\ last'.raised
         /\ last'.error = "WebSocket server is already running"
         /\ UNCHANGED <<bridge, ws>>]_vars

\* A start() that was rejected while a client was registered.
C6_Witness ==
    /\ last.op = "start" /\ last.raised
    /\ last.error = "WebSocket server is already running"
    /\ server /\ Len(clients) >= 1

\* C7: a frame that is not JSON reaches no handler, is answered by exactly
\* one write, an 'error' envelope to the originating handle, and leaves the
\* registry and the handles as they were.
C7_MalformedFrameGetsOneError ==
    [][(last'.op = "handleMessage" /\ ~ParsedFrame'.ok) =>
         /\ calls' = <<>>
         /\ Len(writes') = 1
         /\ writes'[1].to = last'.ws
         /\ EnvelopeType(writes'[1]) = Str("error")
         /\ UNCHANGED <<clients, ws>>
         /\ ~last'.raised]_vars

\* A malformed frame arrived on a registered open connection while both
\* message handlers were set and another client was connected.
C7_Witness ==
    /\ last.op = "handleMessage" /\ last.frame = GarbageText
    /\ handlers["onMessage"] # NoHandler /\ handlers["onCustomMessage"] # NoHandler
    /\ Len(clients) = 2 /\ last.ws \in Registered(clients)
    /\ ws[last.ws].readyState = OPEN
    /\ Len(writes) = 1 /\ writes[1].ok

\* C8: a ping frame reaches no handler and is answered by exactly one write,
\* a 'pong' envelope to the originating handle, and by no other envelope.
C8_PingGetsOnePong ==
    [][(/\ last'.op = "handleMessage" /\ ParsedFrame'.ok
        /\ Get(ParsedFrame'.value, "type") = Str("ping")) =>
         /\ calls' = <<>>
         /\ Len(writes') = 1
         /\ writes'[1].to = last'.ws
         /\ EnvelopeType(writes'[1]) = Str("pong")]_vars

\* The handler invocations C9 expects for a frame d from the connection with
\* clientId id: onMessage if set, then onCustomMessage if set.
ExpectedSlots(hs) ==
    (IF hs["onMessage"] # NoHandler THEN <<"onMessage">> ELSE <<>>) \o
    (IF hs["onCustomMessage"] # NoHandler THEN <<"onCustomMessage">> ELSE <<>>)

\* C9: a frame that parses to an object whose type is not 'ping' is handed to
\* onMessage (if set) and then to onCustomMessage (if set), once each, with
\* its type and data and the sender's clientId, and nothing is written back.
C9_DispatchInOrder ==
    [][(/\ last'.op = "handleMessage" /\ ParsedFrame'.ok
        /\ ParsedFrame'.value.k = "object"
        /\ Get(ParsedFrame'.value, "type") # Str("ping")) =>
         LET d == ParsedFrame'.value
             id == AssignedId(last'.ws)
         IN /\ [i \in 1..Len(calls') |-> calls'[i].slot] = ExpectedSlots(handlers)
            /\ \A i \in 1..Len(calls') :
                  IF calls'[i].slot = "onMessage"
                  THEN /\ Get(calls'[i].args[1], "type") = Get(d, "type")
                       /\ Get(calls'[i].args[1], "data") = Get(d, "data")
                       /\ Get(calls'[i].args[1], "clientId") = id
                  ELSE calls'[i].args = <<Get(d, "type"), Get(d, "data"), id>>
            /\ writes' = <<>>]_vars

\* The clientId a handler invocation of handleMessage was given.
CallClientId(c) == IF c.slot = "onMessage" THEN Get(c.args[1], "clientId") ELSE c.args[3]

\* C10: the clientId handed to onMessage and onCustomMessage is the id
\* assigned to the connection the frame arrived on, whatever the frame says.
C10_ClientIdFromConnection ==
    [][last'.op = "handleMessage" =>
         \A i \in 1..Len(calls') : CallClientId(calls'[i]) = AssignedId(last'.ws)]_vars

\* A frame carrying the id of another client was dispatched to both handlers.
C10_Witness ==
    /\ last.op = "handleMessage" /\ Len(calls) = 2
    /\ Get(ParsedFrame.value, "clientId") \in ClientIds \ {AssignedId(last.ws)}
    /\ MapHas(clients, Get(ParsedFrame.value, "clientId"))

\* C11: every open event registers the connection under the assigned id,
\* invokes onClientConnect(id) exactly once with the id already registered,
\* then makes one write, a 'connected' envelope with data.clientId = id, to
\* that connection only, and does not fail, whether that write succeeds or not.
C11_OpenRegistersCallsWelcomes ==
    [][last'.op = "handleOpen" =>
         LET id == last'.clientId
             h == last'.ws
         IN /\ MapHas(clients', id) /\ MapGet(clients', id) = h
            /\ handlers["onClientConnect"] # NoHandler =>
                  /\ Len(calls') = 1
                  /\ calls'[1].slot = "onClientConnect"
                  /\ calls'[1].args = <<id>>
                  /\ id \in calls'[1].registered
            /\ Len(writes') = 1
            /\ writes'[1].to = h
            /\ EnvelopeType(writes'[1]) = Str("connected")
            /\ Get(Get(Envelope(writes'[1]), "data"), "clientId") = id
            /\ ~last'.raised]_vars

\* C12: a close event on a handle that carries an assigned id removes that id
\* from the registry and then invokes onClientDisconnect (if set) once, with
\* exactly that id and with the id no longer registered; every entry under
\* another id stays as it was.
C12_CloseRemovesThenReports ==
    [][(last'.op = "handleClose" /\ AssignedId(last'.ws) # Undefined) =>
         LET id == AssignedId(last'.ws) IN
         /\ ~MapHas(clients', id)
         /\ SelectSeq(clients, LAMBDA e : e.id # id) = clients'
         /\ IF handlers["onClientDisconnect"] = NoHandler THEN calls' = <<>>
            ELSE /\ Len(calls') = 1
                 /\ calls'[1].slot = "onClientDisconnect"
                 /\ calls'[1].args = <<id>>
                 /\ id \notin calls'[1].registered
                 /\ calls'[1].registered = MapKeys(clients) \ {id}
         /\ writes' = <<>>]_vars

\* A registered connection was closed while another one was registered: the
\* handler was told, and the other entry is still there.
C12_Witness ==
    /\ last.op = "handleClose"
    /\ Len(calls) = 1 /\ calls[1].slot = "onClientDisconnect"
    /\ Len(clients) = 1
    /\ clients[1].ws # last.ws
    /\ calls[1].registered = {clients[1].id}
    /\ calls[1].args[1] # clients[1].id

\* C13: an error event removes the registry entry and invokes
\* onClientDisconnect exactly when the handle carries an assigned id; on a
\* handle without one, no handler is invoked and the registry is unchanged.
C13_ErrorReportsOnlyResolvedIds ==
    [][last'.op = "handleError" =>
         LET id == AssignedId(last'.ws) IN
         IF id # Undefined
         THEN /\ clients' = MapDelete(clients, id)
              /\ handlers["onClientDisconnect"] # NoHandler =>
                    /\ Len(calls') = 1
                    /\ calls'[1].slot = "onClientDisconnect"
                    /\ calls'[1].args = <<id>>
         ELSE /\ calls' = <<>>
              /\ clients' = clients]_vars

\* C14: every open event assigns an id that no other connection, open or
\* already removed, has ever been given, and adds one entry to the registry
\* (so N opens in a row give N entries with pairwise distinct ids).
C14_AssignedIdsAreFresh ==
    [][last'.op = "handleOpen" =>
         /\ \A g \in Handles \ {last'.ws} : AssignedId(g) # last'.clientId
         /\ Len(clients') = Len(clients) + 1]_vars

\* C15: stop() on a running server does not raise, whether or not ws.close
\* fails on registered handles that are already dead: it calls ws.close with
\* code 1000 once on every registered connection, clears the registry and
\* leaves the server stopped.  stop() on a stopped server changes nothing.
C15_StopToleratesDeadHandles ==
    [][last'.op = "stop" =>
         IF server
         THEN /\ ~last'.raised
              /\ Len(closes') = Len(clients)
              /\ \A i \in 1..Len(closes') :
                    closes'[i].to = clients[i].ws /\ closes'[i].code = NormalClosure
              /\ clients' = <<>>
              /\ ~server' /\ ~(getStatus.isRunning)'
         ELSE /\ UNCHANGED <<bridge, ws>>
              /\ closes' = <<>>
              /\ ~last'.raised]_vars

\* The handler slots an event invokes when no handler raises, given the
\* handler set hs it runs with.
DispatchedSlots(hs) ==
    IF last'.op = "handleOpen"
    THEN IF hs["onClientConnect"] # NoHandler THEN <<"onClientConnect">> ELSE <<>>
    ELSE IF last'.op = "handleClose" /\ AssignedId(last'.ws) # Undefined
    THEN IF hs["onClientDisconnect"] # NoHandler THEN <<"onClientDisconnect">> ELSE <<>>
    ELSE IF last'.op = "handleMessage" /\ FrameBranch[last'.frame] = "dispatch"
    THEN ExpectedSlots(hs)
    ELSE <<>>

\* C16: setHandlers(partial) leaves in every slot present in partial the
\* value given there and in every other slot the handler it held before,
\* changes neither the registry nor the lifecycle state nor any handle, and
\* the event that follows invokes exactly the set slots of the merged set.
C16_SetHandlersMerges ==
    [][/\ last'.op = "setHandlers" =>
             /\ \A s \in Slots :
                   handlers'[s] = IF s \in DOMAIN last'.partial
                                  THEN last'.partial[s] ELSE handlers[s]
             /\ UNCHANGED <<server, startTime, clients, config, ws>>
             /\ ~last'.raised
       /\ (/\ last.op = "setHandlers"
           /\ last'.op \in {"handleOpen", "handleClose", "handleMessage"}
           /\ \A i \in 1..Len(calls') : ~calls'[i].threw) =>
             [i \in 1..Len(calls') |-> calls'[i].slot] = DispatchedSlots(handlers)]_vars

\* setHandlers was given one slot on a running server with a registered
\* client, while another slot held a handler and a third one was unset.
C16_Witness ==
    /\ last.op = "setHandlers" /\ server /\ Len(clients) = 1
    /\ DOMAIN last.partial = {"onMessage"}
    /\ handlers["onMessage"] # NoHandler
    /\ handlers["onCustomMessage"] # NoHandler
    /\ handlers["onClientConnect"] = NoHandler

\* C17: a start() whose bind fails raises that failure and leaves the server
\* stopped, with isRunning false and an empty registry and nothing else
\* changed; and a start() on a stopped server, in particular the one after a
\* failed bind, is never rejected as 'already running'.
C17_BindFailureLeavesStopped ==
    [][/\ (last'.op = "start" /\ last'.error = "bind failure") =>
             /\ last'.raised
             /\ ~server' /\ ~(getStatus.isRunning)'
             /\ Len(clients') = 0
             /\ UNCHANGED <<bridge, ws>>
       /\ (last'.op = "start" /\ ~server) =>
             last'.error # "WebSocket server is already running"
       /\ (last.op = "start" /\ last.error = "bind failure" /\ last'.op = "start") =>
             /\ last'.error # "WebSocket server is already running"
             /\ ~last'.raised => server']_vars

\* A bind failure on a server that had run and been stopped before.
C17_Witness ==
    /\ last.op = "start" /\ last.raised /\ last.error = "bind failure"
    /\ ~server /\ startTime = Now

\* The handle whose event invoked onClientDisconnect in the last step with
\* that handle's assigned id; 0 when the last step did no such thing.
ReportedHandle(l, cs) ==
    IF /\ l.op \in {"handleError", "handleClose"}
       /\ \E i \in 1..Len(cs) :
             cs[i].slot = "onClientDisconnect" /\ cs[i].args = <<AssignedId(l.ws)>>
    THEN l.ws ELSE 0

\* C18: onClientDisconnect is invoked at most once with the id of a
\* connection: an event of a connection that reports its id is not followed
\* by another event of the same connection that reports it again (an errored
\* event followed by the closed event of the same connection in particular).
C18_DisconnectReportedOnce ==
    [][ReportedHandle(last, calls) # 0 =>
         ReportedHandle(last', calls') # ReportedHandle(last, calls)]_vars

\* C19: an 'error' envelope is written only by a message event whose frame
\* could not be parsed as structured data (text that is not JSON, or JSON
\* that has no fields to read), and only to the handle the frame arrived on;
\* a ping or a dispatched frame is never answered by one, whatever its
\* handlers or the pong write do.
C19_ErrorOnlyForUnparsedFrames ==
    [][\A i \in 1..Len(writes') :
          EnvelopeType(writes'[i]) = Str("error") =>
             /\ last'.op = "handleMessage"
             /\ FrameBranch[last'.frame] = "throws"
             /\ writes'[i].to = last'.ws]_vars

\* C20: whenever a message event invokes onMessage or onCustomMessage with a
\* clientId, that id is in the registry at the time of the call (so that
\* sendToClient with it finds the sender).
C20_DispatchedIdIsRegistered ==
    [][last'.op = "handleMessage" =>
         \A i \in 1..Len(calls') :
            calls'[i].slot \in {"onMessage", "onCustomMessage"} =>
               /\ CallClientId(calls'[i]) \in calls'[i].registered
               /\ MapHas(clients, CallClientId(calls'[i]))]_vars

====
